---------------------------- MODULE Spec2Model ----------------------------
(***************************************************************************)
(* Model of document_parser.py: extract_text (format dispatch), the PDF    *)
(* extractor with per-page OCR fallback, the DOC/DOCX extractor with its   *)
(* python-docx -> textract fallback chain, the plain-text reader and       *)
(* clean_extracted_text.                                                   *)
(*                                                                         *)
(* A Python str is a sequence of one-character strings.  The libraries     *)
(* (fitz, pytesseract, docx, textract, open) are the environment: each     *)
(* call returns a value or raises, chosen nondeterministically.            *)
(***************************************************************************)
EXTENDS Naturals, Sequences, FiniteSets

VARIABLES
    pc,               \* position of the call
    file_path,        \* argument of extract_text
    ext,              \* os.path.splitext(file_path)[1].lower()
    route,            \* branch taken by extract_text
    calls,            \* library calls made so far, each with its outcome
    open_handles,     \* handles on the source document that are open
    doc,              \* the opened fitz document: its pages
    page_num,         \* index of the next page of enumerate(doc)
    visited,          \* page numbers visited, in order
    full_text,        \* extract_text_from_pdf: full_text
    pages_processed,  \* extract_text_from_pdf: pages_processed
    ocr_pages,        \* extract_text_from_pdf: ocr_pages
    result,           \* the record the call returned
    norm_in,          \* argument of a direct call of clean_extracted_text
    norm_once,        \* clean_extracted_text(norm_in)
    norm_twice        \* clean_extracted_text(norm_once)

vars == <<pc, file_path, ext, route, calls, open_handles, doc, page_num,
          visited, full_text, pages_processed, ocr_pages, result,
          norm_in, norm_once, norm_twice>>

pdfVars == <<doc, page_num, visited, full_text, pages_processed, ocr_pages>>
normVars == <<norm_in, norm_once, norm_twice>>

---------------------------------------------------------------------------
(* Bounds                                                                  *)

MaxTextLen == 6     \* longest argument of a direct clean_extracted_text call
MaxPages == 3       \* most pages of a PDF
MaxParas == 2       \* most paragraphs of a DOCX

---------------------------------------------------------------------------
(* Python values                                                           *)

\* None, where a str is expected: a one-element sequence holding a token
\* that is no character.
None == <<"None">>

LF == "\n"
TAB == "\t"
CR == "\r"
NUL == "\\x00"
SP == " "

\* An outcome of a library call: a returned value, or an exception.
Ok(v) == [raises |-> FALSE, val |-> v]
Raise == [raises |-> TRUE, val |-> <<>>]

SeqsUpTo(S, n) == UNION {[1..k -> S] : k \in 0..n}

\* str.isprintable of one character: letters and the ASCII space are; every
\* control character and every other separator is not.
isprintable(c) == c \in {"a", "b", SP}

\* str.isspace of one character, the characters str.strip removes.
isspace(c) == c \in {SP, TAB, LF, CR}

RECURSIVE lstrip(_)
lstrip(s) ==
    IF s = <<>> THEN <<>>
    ELSE IF isspace(Head(s)) THEN lstrip(Tail(s)) ELSE s

RECURSIVE rstrip(_)
rstrip(s) ==
    IF s = <<>> THEN <<>>
    ELSE IF isspace(s[Len(s)]) THEN rstrip(SubSeq(s, 1, Len(s) - 1)) ELSE s

\* str.strip()
strip(s) == rstrip(lstrip(s))

\* s.split(sep): the pieces between the occurrences of sep, at least one.
RECURSIVE split(_, _)
split(s, sep) ==
    IF \A i \in DOMAIN s : s[i] # sep THEN <<s>>
    ELSE LET i == CHOOSE j \in DOMAIN s :
                      s[j] = sep /\ \A k \in 1..(j - 1) : s[k] # sep
         IN <<SubSeq(s, 1, i - 1)>> \o split(SubSeq(s, i + 1, Len(s)), sep)

\* sep.join(parts)
RECURSIVE join(_, _)
join(sep, parts) ==
    IF parts = <<>> THEN <<>>
    ELSE IF Len(parts) = 1 THEN parts[1]
    ELSE parts[1] \o <<sep>> \o join(sep, Tail(parts))

---------------------------------------------------------------------------
(* clean_extracted_text                                                    *)

\* The loop of lines 137-145: a blank line is kept only if the line before
\* it was not blank.
RECURSIVE RemoveBlankRuns(_, _)
RemoveBlankRuns(clean_lines, prev_blank) ==
    IF clean_lines = <<>> THEN <<>>
    ELSE LET line == Head(clean_lines) IN
         IF line # <<>>
         THEN <<line>> \o RemoveBlankRuns(Tail(clean_lines), FALSE)
         ELSE IF ~prev_blank
         THEN <<line>> \o RemoveBlankRuns(Tail(clean_lines), TRUE)
         ELSE RemoveBlankRuns(Tail(clean_lines), TRUE)

\* A plausible bug: the lines are stripped before the non-printable
\* characters are dropped.
clean_strip_first(text) ==
    IF text = None \/ text = <<>> THEN <<>>
    ELSE LET lines == split(text, LF)
             stripped == [i \in DOMAIN lines |-> strip(lines[i])]
             clean_lines == [i \in DOMAIN lines |->
                 SelectSeq(stripped[i],
                           LAMBDA c : isprintable(c) \/ c \in {LF, TAB, SP})]
             result_lines == RemoveBlankRuns(clean_lines, FALSE)
         IN strip(join(LF, result_lines))

\* A plausible bug: the final strip() of the joined text is missing.
clean_no_final_strip(text) ==
    IF text = None \/ text = <<>> THEN <<>>
    ELSE LET clean_text ==
                 SelectSeq(text, LAMBDA c : isprintable(c) \/ c \in {LF, TAB, SP})
             lines == split(clean_text, LF)
             clean_lines == [i \in DOMAIN lines |-> strip(lines[i])]
             result_lines == RemoveBlankRuns(clean_lines, FALSE)
         IN join(LF, result_lines)

clean_extracted_text(text) ==
    IF text = None \/ text = <<>> THEN <<>>
    ELSE LET clean_text ==
                 SelectSeq(text, LAMBDA c : isprintable(c) \/ c \in {LF, TAB, SP})
             lines == split(clean_text, LF)
             clean_lines == [i \in DOMAIN lines |-> strip(lines[i])]
             result_lines == RemoveBlankRuns(clean_lines, FALSE)
         IN strip(join(LF, result_lines))

---------------------------------------------------------------------------
(* Initial values of the state of one call                                 *)

\* No record has been returned yet.
NoResult == [pending |-> TRUE]

IdleCall ==
    /\ file_path = None
    /\ ext = <<>>
    /\ route = "none"
    /\ calls = <<>>
    /\ open_handles = {}
    /\ doc = <<>>
    /\ page_num = 0
    /\ visited = <<>>
    /\ full_text = <<>>
    /\ pages_processed = 0
    /\ ocr_pages = 0
    /\ result = NoResult

---------------------------------------------------------------------------
(* extract_text: dispatch on the extension                                 *)

\* The paths of the model: each supported extension in several letter
\* cases, unsupported ones, and the shapes os.path.splitext tells apart.
Paths == {
    <<"a", ".", "p", "d", "f">>,
    <<"a", ".", "P", "D", "F">>,
    <<"a", ".", "P", "d", "f">>,
    <<"a", ".", "t", "x", "t", ".", "p", "d", "f">>,
    <<"a", ".", "d", "o", "c">>,
    <<"a", ".", "D", "O", "C">>,
    <<"a", ".", "d", "o", "c", "x">>,
    <<"a", ".", "D", "o", "c", "X">>,
    <<"a", ".", "t", "x", "t">>,
    <<"a", ".", "T", "X", "T">>,
    <<"a", ".", "x", "y", "z">>,
    <<"a", ".", "X", "Y", "Z">>,
    <<"a", ".", "p", "d", "f", "x">>,
    <<"a", ".", "p", "d", "f", "/", "b">>,
    <<".", "p", "d", "f">>,
    <<"a", ".">>,
    <<"a">> }

\* str.lower() of one character.
ToLower ==
    [P |-> "p", D |-> "d", F |-> "f", O |-> "o", C |-> "c", X |-> "x",
     T |-> "t", Y |-> "y", Z |-> "z"]

lower(s) ==
    [i \in DOMAIN s |-> IF s[i] \in DOMAIN ToLower THEN ToLower[s[i]] ELSE s[i]]

\* str.rfind of one character: the last index holding it, 0 when there is
\* none (Python's -1, indices being one higher here).
rfind(s, c) ==
    IF \A i \in DOMAIN s : s[i] # c THEN 0
    ELSE CHOOSE i \in DOMAIN s : s[i] = c /\ \A j \in (i + 1)..Len(s) : s[j] # c

\* os.path.splitext(p)[1]: from the last dot of the last path component,
\* unless only dots precede it in that component.
splitext_ext(p) ==
    LET sepIndex == rfind(p, "/")
        dotIndex == rfind(p, ".")
    IN IF dotIndex > sepIndex
          /\ \E k \in (sepIndex + 1)..(dotIndex - 1) : p[k] # "."
       THEN SubSeq(p, dotIndex, Len(p))
       ELSE <<>>

\* A plausible bug: the extension is compared as written, without .lower().
FileExt_case_sensitive(p) == splitext_ext(p)

\* Line 20: ext = os.path.splitext(file_path)[1].lower()
FileExt(p) == lower(splitext_ext(p))

PDF_EXT == <<".", "p", "d", "f">>
DOC_EXT == <<".", "d", "o", "c">>
DOCX_EXT == <<".", "d", "o", "c", "x">>
TXT_EXT == <<".", "t", "x", "t">>

\* An error record: {"error": prefix + detail + suffix}
ErrorRecord(prefix, detail, suffix) ==
    [error |-> [prefix |-> prefix, detail |-> detail, suffix |-> suffix]]

UnsupportedError(e) ==
    ErrorRecord("Unsupported file type: ", e,
                ". Only PDF, DOC, DOCX, TXT supported.")

Init ==
    /\ pc = "start"
    /\ file_path \in Paths \cup {None}
    /\ ext = <<>>
    /\ route = "none"
    /\ calls = <<>>
    /\ open_handles = {}
    /\ doc = <<>>
    /\ page_num = 0
    /\ visited = <<>>
    /\ full_text = <<>>
    /\ pages_processed = 0
    /\ ocr_pages = 0
    /\ result = NoResult
    /\ norm_in = None
    /\ norm_once = None
    /\ norm_twice = None

\* Lines 19-25 and 35-38: the extension decides the branch; splitext of a
\* path that is no str raises, which line 37 catches.
Dispatch ==
    /\ pc = "start"
    /\ IF file_path = None
       THEN /\ route' = "failed"
            /\ result' = ErrorRecord("Failed to extract text: ", <<"TypeError">>, "")
            /\ pc' = "done"
            /\ ext' = ext
       ELSE LET e == FileExt(file_path) IN
            /\ ext' = e
            /\ IF e = PDF_EXT
               THEN route' = "pdf" /\ pc' = "pdf_open" /\ result' = result
               ELSE IF e \in {DOC_EXT, DOCX_EXT}
               THEN route' = "doc" /\ pc' = "doc_start" /\ result' = result
               ELSE IF e = TXT_EXT
               THEN route' = "txt" /\ pc' = "txt_open" /\ result' = result
               ELSE /\ route' = "unsupported"
                    /\ result' = UnsupportedError(e)
                    /\ pc' = "done"
    /\ UNCHANGED <<file_path, calls, open_handles, pdfVars, normVars>>

---------------------------------------------------------------------------
(* The plain-text branch of extract_text                                   *)

\* Texts a library hands back: empty, blank, plain, with a run of blank
\* lines, and one made of a non-printable character only.
RawTexts == {
    <<>>,
    <<SP, LF>>,
    <<"a">>,
    <<"a", LF, LF, LF, "b", LF>>,
    <<NUL>> }

\* A plausible bug: the success record is built without its method.
TxtSuccess_no_method(text) ==
    LET clean_text == clean_extracted_text(text)
    IN [text |-> clean_text, length |-> Len(clean_text)]

\* Lines 29-34
TxtSuccess(text) ==
    LET clean_text == clean_extracted_text(text)
    IN [text |-> clean_text, length |-> Len(clean_text),
        method |-> "direct text read"]

\* Line 27: open(file_path, 'r', encoding='utf-8')
TxtOpen ==
    /\ pc = "txt_open"
    /\ \E o \in {Raise, Ok(<<>>)} :
          /\ calls' = Append(calls, [fn |-> "open", out |-> o])
          /\ IF o.raises
             THEN /\ result' = ErrorRecord("Failed to extract text: ", <<"open">>, "")
                  /\ pc' = "done"
                  /\ open_handles' = open_handles
             ELSE /\ open_handles' = open_handles \cup {"f"}
                  /\ pc' = "txt_read"
                  /\ result' = result
    /\ UNCHANGED <<file_path, ext, route, pdfVars, normVars>>

\* Lines 27-34: f.read() inside the with block, which closes f on the way
\* out, whether read returned or raised.
TxtRead ==
    /\ pc = "txt_read"
    /\ \E o \in {Raise} \cup {Ok(t) : t \in RawTexts} :
          /\ calls' = Append(calls, [fn |-> "f.read", out |-> o])
          /\ open_handles' = open_handles \ {"f"}
          /\ result' = IF o.raises
                       THEN ErrorRecord("Failed to extract text: ", <<"f.read">>, "")
                       ELSE TxtSuccess(o.val)
          /\ pc' = "done"
    /\ UNCHANGED <<file_path, ext, route, pdfVars, normVars>>

---------------------------------------------------------------------------
(* extract_text_from_pdf                                                   *)

PDF_METHOD == "PyMuPDF + OCR"

\* A page: what page.get_text() does, and what rendering the page and
\* running OCR on it does if it is asked to.  A page with a text layer, a
\* page whose get_text raises, and image-only pages (empty or blank native
\* text) whose OCR raises, finds nothing, finds blanks or finds text.
Pages ==
    {[native |-> Ok(<<"a">>), ocr |-> Ok(<<"b">>)],
     [native |-> Raise, ocr |-> Ok(<<"b">>)]}
    \cup {[native |-> Ok(n), ocr |-> o] :
             n \in {<<>>, <<SP, LF>>},
             o \in {Raise, Ok(<<>>), Ok(<<SP>>), Ok(<<"b">>)}}

Documents == SeqsUpTo(Pages, MaxPages)

\* A plausible bug: an OCR failure is not caught per page and ends the loop.
PageResult_ocr_fatal(page) ==
    IF page.native.raises
    THEN [raised |-> TRUE, add |-> <<>>, ocr |-> 0]
    ELSE IF strip(page.native.val) # <<>>
    THEN [raised |-> FALSE, add |-> page.native.val \o <<LF>>, ocr |-> 0]
    ELSE IF page.ocr.raises
    THEN [raised |-> TRUE, add |-> <<>>, ocr |-> 0]
    ELSE IF strip(page.ocr.val) # <<>>
    THEN [raised |-> FALSE, add |-> page.ocr.val \o <<LF>>, ocr |-> 1]
    ELSE [raised |-> FALSE, add |-> <<>>, ocr |-> 0]

\* A plausible bug: ocr_pages is incremented outside `if ocr_text.strip()`,
\* for every page on which OCR ran.
PageResult_count_every_ocr(page) ==
    IF page.native.raises
    THEN [raised |-> TRUE, add |-> <<>>, ocr |-> 0]
    ELSE IF strip(page.native.val) # <<>>
    THEN [raised |-> FALSE, add |-> page.native.val \o <<LF>>, ocr |-> 0]
    ELSE IF page.ocr.raises
    THEN [raised |-> FALSE, add |-> <<>>, ocr |-> 0]
    ELSE IF strip(page.ocr.val) # <<>>
    THEN [raised |-> FALSE, add |-> page.ocr.val \o <<LF>>, ocr |-> 1]
    ELSE [raised |-> FALSE, add |-> <<>>, ocr |-> 1]

\* A plausible bug: ocr_pages is incremented at the level of the loop body,
\* for pages with native text too.
PageResult_count_every_page(page) ==
    IF page.native.raises
    THEN [raised |-> TRUE, add |-> <<>>, ocr |-> 0]
    ELSE IF strip(page.native.val) # <<>>
    THEN [raised |-> FALSE, add |-> page.native.val \o <<LF>>, ocr |-> 1]
    ELSE IF page.ocr.raises
    THEN [raised |-> FALSE, add |-> <<>>, ocr |-> 1]
    ELSE IF strip(page.ocr.val) # <<>>
    THEN [raised |-> FALSE, add |-> page.ocr.val \o <<LF>>, ocr |-> 1]
    ELSE [raised |-> FALSE, add |-> <<>>, ocr |-> 1]

\* Lines 49-64, the body of the loop for one page: whether an exception
\* leaves the loop, the text added to full_text, the increment of ocr_pages.
PageResult(page) ==
    IF page.native.raises
    THEN [raised |-> TRUE, add |-> <<>>, ocr |-> 0]
    ELSE IF strip(page.native.val) # <<>>
    THEN [raised |-> FALSE, add |-> page.native.val \o <<LF>>, ocr |-> 0]
    ELSE IF page.ocr.raises
    THEN [raised |-> FALSE, add |-> <<>>, ocr |-> 0]
    ELSE IF strip(page.ocr.val) # <<>>
    THEN [raised |-> FALSE, add |-> page.ocr.val \o <<LF>>, ocr |-> 1]
    ELSE [raised |-> FALSE, add |-> <<>>, ocr |-> 0]

\* Line 82
PdfError(cause) == ErrorRecord("PDF extraction failed: ", <<cause>>, "")

\* Lines 71-79
PdfSuccess(text, processed, ocr) ==
    LET clean_text == clean_extracted_text(text)
    IN [text |-> clean_text, pages_processed |-> processed, ocr_pages |-> ocr,
        length |-> Len(clean_text), method |-> PDF_METHOD]

\* Lines 43-46: fitz.open, then the counters.
PdfOpen ==
    /\ pc = "pdf_open"
    /\ \E o \in {Raise} \cup {Ok(d) : d \in Documents} :
          /\ calls' = Append(calls, [fn |-> "fitz.open",
                                  out |-> IF o.raises THEN Raise ELSE Ok(<<>>)])
          /\ IF o.raises
             THEN /\ result' = PdfError("fitz.open")
                  /\ pc' = "done"
                  /\ UNCHANGED <<open_handles, pdfVars>>
             ELSE /\ doc' = o.val
                  /\ open_handles' = open_handles \cup {"doc"}
                  /\ full_text' = <<>>
                  /\ pages_processed' = 0
                  /\ ocr_pages' = 0
                  /\ page_num' = 0
                  /\ visited' = <<>>
                  /\ pc' = "pdf_pages"
                  /\ result' = result
    /\ UNCHANGED <<file_path, ext, route, normVars>>

\* Lines 48-66: one iteration of the loop.  An exception that leaves the
\* loop goes to line 81, past doc.close().
PdfPage ==
    /\ pc = "pdf_pages"
    /\ page_num < Len(doc)
    /\ LET r == PageResult(doc[page_num + 1]) IN
          IF r.raised
          THEN /\ result' = PdfError("page.get_text")
               /\ pc' = "done"
               /\ UNCHANGED pdfVars
          ELSE /\ full_text' = full_text \o r.add
               /\ ocr_pages' = ocr_pages + r.ocr
               /\ pages_processed' = pages_processed + 1
               /\ visited' = Append(visited, page_num)
               /\ page_num' = page_num + 1
               /\ UNCHANGED <<doc, result, pc>>
    /\ UNCHANGED <<file_path, ext, route, calls, open_handles, normVars>>

\* Lines 68-79: the loop is over; close, clean, return.
PdfFinish ==
    /\ pc = "pdf_pages"
    /\ page_num = Len(doc)
    /\ open_handles' = open_handles \ {"doc"}
    /\ result' = PdfSuccess(full_text, pages_processed, ocr_pages)
    /\ pc' = "done"
    /\ UNCHANGED <<file_path, ext, route, calls, pdfVars, normVars>>

---------------------------------------------------------------------------
(* extract_text_from_doc                                                   *)

ParaTexts == {<<>>, <<SP>>, <<"a">>, <<NUL>>}

ParagraphLists == SeqsUpTo(ParaTexts, MaxParas)

\* A plausible bug: python-docx is tried for .doc files too.
UsesStructured_doc_too(e) == e \in {DOC_EXT, DOCX_EXT}

\* Line 89
UsesStructured(e) == e = DOCX_EXT

\* Line 93: [p.text for p in doc.paragraphs if p.text.strip()]
KeptParagraphs(ps) == SelectSeq(ps, LAMBDA p : strip(p) # <<>>)

\* Lines 97-103
DocxSuccess(ps) ==
    LET clean_text == clean_extracted_text(join(LF, KeptParagraphs(ps)))
    IN [text |-> clean_text, paragraphs |-> Len(KeptParagraphs(ps)),
        length |-> Len(clean_text), method |-> "python-docx"]

\* Line 119
TextractError(cause) == ErrorRecord("Textract extraction failed: ", <<cause>>, "")

\* A plausible change: textract's text is returned only if it is not blank.
TextractReturn_nonblank_only(raw_text) ==
    LET clean_text == clean_extracted_text(raw_text)
    IN IF clean_text = <<>>
       THEN TextractError("no text")
       ELSE [text |-> clean_text, length |-> Len(clean_text),
             method |-> "textract"]

\* Lines 111-117
TextractReturn(raw_text) ==
    LET clean_text == clean_extracted_text(raw_text)
    IN [text |-> clean_text, length |-> Len(clean_text), method |-> "textract"]

\* Lines 89-105: python-docx on a .docx; its text is returned if it is not
\* blank, and an exception is printed and swallowed.
DocStructured ==
    /\ pc = "doc_start"
    /\ UsesStructured(ext)
    /\ \E o \in {Raise} \cup {Ok(ps) : ps \in ParagraphLists} :
          /\ calls' = Append(calls, [fn |-> "docx.Document", out |-> o])
          /\ IF ~o.raises /\ strip(join(LF, KeptParagraphs(o.val))) # <<>>
             THEN result' = DocxSuccess(o.val) /\ pc' = "done"
             ELSE result' = result /\ pc' = "doc_fallback"
    /\ UNCHANGED <<file_path, ext, route, open_handles, pdfVars, normVars>>

\* Line 89, not a .docx: straight to the fallback.
DocSkipStructured ==
    /\ pc = "doc_start"
    /\ ~UsesStructured(ext)
    /\ pc' = "doc_fallback"
    /\ UNCHANGED <<file_path, ext, route, calls, open_handles, result,
                   pdfVars, normVars>>

\* What lines 109-110 can do: the import fails, or textract.process (with
\* the decode) raises or returns text.
TextractOutcomes ==
    {[fn |-> "import textract", out |-> Raise],
     [fn |-> "textract.process", out |-> Raise]}
    \cup {[fn |-> "textract.process", out |-> Ok(t)] : t \in RawTexts}

\* Lines 108-119
DocFallback ==
    /\ pc = "doc_fallback"
    /\ \E c \in TextractOutcomes :
          /\ calls' = Append(calls, c)
          /\ result' = IF c.out.raises
                       THEN TextractError(c.fn)
                       ELSE TextractReturn(c.out.val)
          /\ pc' = "done"
    /\ UNCHANGED <<file_path, ext, route, open_handles, pdfVars, normVars>>

---------------------------------------------------------------------------

Next ==
    \/ Dispatch
    \/ TxtOpen
    \/ TxtRead
    \/ PdfOpen
    \/ PdfPage
    \/ PdfFinish
    \/ DocStructured
    \/ DocSkipStructured
    \/ DocFallback

Spec == Init /\ [][Next]_vars

---------------------------------------------------------------------------
(* Claims about extract_text                                               *)

Returned == pc = "done"
IsSuccess == "text" \in DOMAIN result
IsError == "error" \in DOMAIN result

\* C1: whatever the path and whatever the libraries do, no record exists
\* before the call returns, and the record it returns carries either text
\* and method and no error, or error and neither text nor method.
C1_SuccessXorError ==
    /\ ~Returned => result = NoResult
    /\ Returned =>
          \/ "error" \in DOMAIN result /\ "text" \notin DOMAIN result
                                       /\ "method" \notin DOMAIN result
          \/ "error" \notin DOMAIN result /\ "text" \in DOMAIN result
                                          /\ "method" \in DOMAIN result

\* A .docx on which python-docx raised and then textract raised.
C1_Witness ==
    /\ Returned
    /\ route = "doc"
    /\ Len(calls) = 2
    /\ calls[1].out.raises
    /\ calls[2].out.raises
    /\ DOMAIN result = {"error"}

PdfReturnedSuccess == Returned /\ route = "pdf" /\ IsSuccess

\* The page has a text layer: get_text returned text that is not blank.
HasNativeText(page) == ~page.native.raises /\ strip(page.native.val) # <<>>

\* The page is image-only: get_text returned empty or blank text.
IsImageOnly(page) == ~page.native.raises /\ strip(page.native.val) = <<>>

\* OCR on the page returns text that is not blank.
OcrFindsText(page) == ~page.ocr.raises /\ strip(page.ocr.val) # <<>>

\* The label the extractor returns when a page's text came from OCR.
LabelWithOcr == PdfSuccess(<<"b", LF>>, 1, 1).method

C4_AllImageAllOcr ==
    PdfReturnedSuccess /\ (\A i \in DOMAIN doc : IsImageOnly(doc[i])) =>
        /\ result.ocr_pages = result.pages_processed
        /\ result.method = LabelWithOcr

\* C4 as the code has it: for a PDF whose every page is image-only,
\* ocr_pages is the number of pages on which OCR returned text that is not
\* blank; it equals pages_processed exactly when OCR did so on every page.
C4_OcrPagesCountsFound ==
    PdfReturnedSuccess /\ (\A i \in DOMAIN doc : IsImageOnly(doc[i])) =>
        /\ result.pages_processed = Len(doc)
        /\ result.ocr_pages = Cardinality({i \in DOMAIN doc : OcrFindsText(doc[i])})
        /\ result.ocr_pages = result.pages_processed <=>
              \A i \in DOMAIN doc : OcrFindsText(doc[i])
        /\ result.method = "PyMuPDF + OCR"

\* Two image-only pages: OCR finds text on the first and nothing on the
\* second.
C4_Witness ==
    /\ PdfReturnedSuccess
    /\ Len(doc) = 2
    /\ \A i \in DOMAIN doc : IsImageOnly(doc[i])
    /\ OcrFindsText(doc[1])
    /\ ~doc[2].ocr.raises /\ ~OcrFindsText(doc[2])
    /\ result.ocr_pages = 1
    /\ result.pages_processed = 2

GenericCalls == {"import textract", "textract.process"}

LastCall == calls[Len(calls)]

PageContribution(page) ==
    IF HasNativeText(page) THEN page.native.val \o <<LF>>
    ELSE IF OcrFindsText(page) THEN page.ocr.val \o <<LF>>
    ELSE <<>>

RECURSIVE Contributions(_)
Contributions(d) ==
    IF d = <<>> THEN <<>>
    ELSE PageContribution(Head(d)) \o Contributions(Tail(d))

PdfOpened == route = "pdf" /\ calls # <<>> /\ ~calls[1].out.raises

\* C6: OCR failing on pages of an opened PDF does not abort the document:
\* unless get_text raises, every page is visited in order, the call returns
\* a success record with pages_processed the number of pages, the text is
\* that of the other pages, and ocr_pages <= pages_processed throughout.
C6_OcrFailureNotFatal ==
    /\ ocr_pages <= pages_processed
    /\ PdfOpened /\ ~Returned => ~IsError /\ pages_processed = page_num
    /\ PdfOpened /\ Returned /\ (\A i \in DOMAIN doc : ~doc[i].native.raises) =>
          /\ IsSuccess /\ ~IsError
          /\ result.pages_processed = Len(doc)
          /\ visited = [i \in 1..Len(doc) |-> i - 1]
          /\ result.ocr_pages <= result.pages_processed
          /\ result.text = clean_extracted_text(Contributions(doc))

\* Three pages: OCR raises on the first, the second has native text, OCR
\* finds text on the third.
C6_Witness ==
    /\ PdfOpened /\ Returned /\ IsSuccess
    /\ Len(doc) = 3
    /\ IsImageOnly(doc[1]) /\ doc[1].ocr.raises
    /\ HasNativeText(doc[2])
    /\ IsImageOnly(doc[3]) /\ OcrFindsText(doc[3])
    /\ result.pages_processed = 3
    /\ result.ocr_pages = 1
    /\ result.text = <<"a", LF, "b">>

\* C7 as claimed: when the call has returned, no handle it opened on the
\* source document is still open, whichever way it returned.
C7_HandlesReleased ==
    Returned => open_handles = {}

\* The extension each path of the model has, in lower case, written out.
ExpectedExt(p) ==
    CASE p \in {<<"a", ".", "p", "d", "f">>, <<"a", ".", "P", "D", "F">>,
                <<"a", ".", "P", "d", "f">>,
                <<"a", ".", "t", "x", "t", ".", "p", "d", "f">>}
            -> <<".", "p", "d", "f">>
      [] p \in {<<"a", ".", "d", "o", "c">>, <<"a", ".", "D", "O", "C">>}
            -> <<".", "d", "o", "c">>
      [] p \in {<<"a", ".", "d", "o", "c", "x">>, <<"a", ".", "D", "o", "c", "X">>}
            -> <<".", "d", "o", "c", "x">>
      [] p \in {<<"a", ".", "t", "x", "t">>, <<"a", ".", "T", "X", "T">>}
            -> <<".", "t", "x", "t">>
      [] p \in {<<"a", ".", "x", "y", "z">>, <<"a", ".", "X", "Y", "Z">>}
            -> <<".", "x", "y", "z">>
      [] p = <<"a", ".", "p", "d", "f", "x">> -> <<".", "p", "d", "f", "x">>
      [] p = <<"a", ".">> -> <<".">>
      [] OTHER -> <<>>

ExpectedRoute(p) ==
    CASE ExpectedExt(p) = <<".", "p", "d", "f">> -> "pdf"
      [] ExpectedExt(p) \in {<<".", "d", "o", "c">>, <<".", "d", "o", "c", "x">>}
            -> "doc"
      [] ExpectedExt(p) = <<".", "t", "x", "t">> -> "txt"
      [] OTHER -> "unsupported"

\* C8: the branch depends on the extension alone, compared without regard
\* to case; an extension outside pdf, doc, docx, txt returns at once an
\* error record naming the extension, no library having been called.
C8_DispatchOnExtension ==
    file_path # None /\ pc # "start" =>
        /\ route = ExpectedRoute(file_path)
        /\ ext = ExpectedExt(file_path)
        /\ route = "unsupported" =>
              /\ Returned
              /\ calls = <<>>
              /\ open_handles = {}
              /\ DOMAIN result = {"error"}
              /\ result.error.prefix = "Unsupported file type: "
              /\ result.error.detail = ExpectedExt(file_path)
        /\ route # "unsupported" /\ Returned => calls # <<>>

\* a.XYZ is rejected, the record naming .xyz.
C8_Witness ==
    /\ Returned
    /\ file_path = <<"a", ".", "X", "Y", "Z">>
    /\ route = "unsupported"
    /\ result.error.detail = <<".", "x", "y", "z">>

\* python-docx returned no paragraph with text, or raised.
StructuredFailed(c) ==
    c.out.raises \/ \A k \in DOMAIN c.out.val : strip(c.out.val[k]) = <<>>

\* C10: for a .docx, python-docx is tried first and textract only after
\* python-docx raised or produced blank text; for a .doc, python-docx is
\* never tried and textract is the first and only strategy.
C10_FallbackOrder ==
    route = "doc" =>
        /\ Len(calls) <= 2
        /\ ext = DOC_EXT => \A i \in DOMAIN calls : calls[i].fn \in GenericCalls
        /\ ext = DOC_EXT /\ Returned => Len(calls) = 1
        /\ ext = DOCX_EXT /\ calls # <<>> => calls[1].fn = "docx.Document"
        /\ ext = DOCX_EXT /\ Len(calls) = 2 =>
              calls[2].fn \in GenericCalls /\ StructuredFailed(calls[1])
        /\ ext = DOCX_EXT /\ Returned /\ ~StructuredFailed(calls[1]) =>
              Len(calls) = 1 /\ IsSuccess /\ result.method = "python-docx"

\* A .docx whose paragraphs are all blank: python-docx, then textract.
C10_Witness ==
    /\ Returned
    /\ route = "doc"
    /\ ext = DOCX_EXT
    /\ Len(calls) = 2
    /\ calls[1] = [fn |-> "docx.Document", out |-> Ok(<<<<SP>>, <<>>>>)]
    /\ calls[2].fn = "textract.process"
    /\ IsSuccess

---------------------------------------------------------------------------
(* Direct calls of clean_extracted_text, once and on its own output        *)

\* One character of each class the function tells apart: printable, space,
\* tab, newline, non-printable non-space, non-printable whitespace.
NormAlphabet == {"a", SP, TAB, LF, NUL, CR}

NormInputs == {None} \cup SeqsUpTo(NormAlphabet, MaxTextLen)

InitNorm ==
    /\ pc = "norm_call"
    /\ norm_in \in NormInputs
    /\ norm_once = None
    /\ norm_twice = None
    /\ IdleCall

NormOnce ==
    /\ pc = "norm_call"
    /\ norm_once' = clean_extracted_text(norm_in)
    /\ pc' = "norm_again"
    /\ UNCHANGED <<file_path, ext, route, calls, open_handles, result,
                   pdfVars, norm_in, norm_twice>>

NormTwice ==
    /\ pc = "norm_again"
    /\ norm_twice' = clean_extracted_text(norm_once)
    /\ pc' = "norm_done"
    /\ UNCHANGED <<file_path, ext, route, calls, open_handles, result,
                   pdfVars, norm_in, norm_once>>

NextNorm == NormOnce \/ NormTwice

SpecNorm == InitNorm /\ [][NextNorm]_vars

---------------------------------------------------------------------------
(* Claims about clean_extracted_text                                       *)

\* C2: normalization is idempotent: for every input, None and the empty
\* string included, cleaning the cleaned text gives the cleaned text.
C2_Idempotent ==
    pc = "norm_done" => norm_twice = norm_once

\* An input the function really changes (a dropped character, a stripped
\* line and a collapsed run of blank lines), cleaned twice.
C2_Witness ==
    /\ pc = "norm_done"
    /\ norm_in = <<SP, "a", LF, LF, NUL>>
    /\ norm_once = <<"a">>
    /\ norm_twice = <<"a">>

\* The lines of a text, as the text shows them.
LinesOf(s) == split(s, LF)

NoBlankRun(s) ==
    \A i \in 1..(Len(s) - 2) : ~(s[i] = LF /\ s[i + 1] = LF /\ s[i + 2] = LF)

LinesTrimmed(s) ==
    \A i \in DOMAIN LinesOf(s) :
        LET l == LinesOf(s)[i]
        IN l # <<>> => ~isspace(l[1]) /\ ~isspace(l[Len(l)])

EndsTrimmed(s) ==
    s # <<>> => ~isspace(s[1]) /\ ~isspace(s[Len(s)])

\* C9: the output of clean_extracted_text has no run of two or more
\* consecutive empty lines, no line with leading or trailing whitespace, and
\* neither starts nor ends with whitespace.
C9_OutputShape ==
    pc \in {"norm_again", "norm_done"} =>
        /\ NoBlankRun(norm_once)
        /\ LinesTrimmed(norm_once)
        /\ EndsTrimmed(norm_once)

\* "a\n\n\n\nb" (three consecutive empty lines) becomes "a\n\nb".
C9_Witness ==
    /\ pc = "norm_again"
    /\ norm_in = <<"a", LF, LF, LF, LF, "a">>
    /\ norm_once = <<"a", LF, LF, "a">>

=============================================================================
